---- MODULE Spec2Model ----
(***************************************************************************)
(* Model of chamale-rac/mpi-parallel-vector-operations.                    *)
(*                                                                         *)
(*   prog = "mpi" : mpi_vector_operations.c, one process per rank          *)
(*   prog = "seq" : vector_add.c, a single process (kept in rank 0's slot) *)
(*                                                                         *)
(* Numbers.  A vector element is the integer k that stands for the double  *)
(* k / RAND_MAX (the division of line 207); the scalar is an integer.  All *)
(* arithmetic is exact: floating-point rounding is not modelled.           *)
(*                                                                         *)
(* MPI.  A collective call is an entry in calls[r] (the operation and the  *)
(* send buffer at the time of the call).  MPI_Allreduce and MPI_Barrier    *)
(* return only when every rank of the communicator has made the call.  The *)
(* rooted collectives MPI_Gather and MPI_Reduce return at the root only    *)
(* when every rank has made the call; at any other rank they may return as *)
(* soon as the rank's own contribution is handed over (MPI standard,       *)
(* "Collective Communication": a collective may or may not synchronise the *)
(* callers, the barrier excepted).  A rank that waits is a rank that takes *)
(* its return step later, so both outcomes are behaviours of the model.    *)
(* MPI_Finalize is taken as a local step; the process launcher is not      *)
(* modelled.                                                               *)
(***************************************************************************)
EXTENDS Integers, Sequences, FiniteSets, TLC

\* ---------------------------------------------------------------- bounds
MaxCommSz == 2
MaxN == 4
MaxT == 1
SeedMod == 16
RandMax == 3

\* ------------------------------------------------------ program constants
PreviewLimit == 20
PreviewCount == 10
MpiArgc == 3
SeqArgc == 2

AllRanks == 0 .. (MaxCommSz - 1)
NVals == {-5, 0} \cup (1 .. MaxN) \cup {22}
SVals == {0, 1, 2}
ArgcVals == {SeqArgc, MpiArgc}

VARIABLES
    prog,          \* which program runs
    argc, n, s,    \* command line: argument count, atoi(argv[1]), atof(argv[2])
    comm_sz,       \* number of processes
    now,           \* wall clock, what time(NULL) returns
    pc,            \* pc[r]: position of process r
    status,        \* status[r]: exit status, meaningful once r has exited
    local_n,       \* local_n[r]
    heap,          \* heap[r]: the live malloc'ed buffers of r
    local_x, local_y,   \* the local blocks (elements written so far)
    gen_x, gen_y,       \* the blocks as Generate_vector left them
    seeds,         \* seeds[r]: per Generate_vector call, t read, salt and seed
    local_dot,     \* local_dot[r]: <<>> until assigned
    global_dot,    \* global_dot[r]: <<>> until assigned
    calls,         \* calls[r]: the collective calls r has made, in order
    stdout, stderr,     \* lines written, each tagged with the writer's rank
    alloc_failed,  \* some malloc has returned NULL
    x, y, z        \* the sequential program's vectors

vars == << prog, argc, n, s, comm_sz, now, pc, status, local_n, heap,
           local_x, local_y, gen_x, gen_y, seeds, local_dot, global_dot,
           calls, stdout, stderr, alloc_failed, x, y, z >>

Ranks == 0 .. (comm_sz - 1)

\* ------------------------------------------------------------ pure parts

\* exit(code): the status the parent sees is the low 8 bits
ExitStatus(code) == code % 256

\* the test of mpi_vector_operations.c line 61
\* faulty variant: n < 0 in place of n <= 0
InvalidOrderMut(nn, sz) == nn < 0 \/ nn % sz # 0
InvalidOrder(nn, sz) == nn <= 0 \/ nn % sz # 0

\* the test of vector_add.c line 38
SeqInvalidOrder(nn) == nn <= 0

\* rand_r / rand: a linear congruential step on the seed word (glibc's
\* multiplier and increment, reduced to the model's word size)
RandNext(seed) == (seed * 13 + 9) % SeedMod
RandValue(seed) == (seed \div 4) % (RandMax + 1)

\* line 205: (unsigned int)time(NULL) + my_rank + i_seed
Seed(t, my_rank, i_seed) == (t + my_rank + i_seed) % SeedMod

RECURSIVE GenLoop(_, _, _, _)
GenLoop(seed, i, len, a) ==
    IF i < len
    THEN GenLoop(RandNext(seed), i + 1, len, Append(a, RandValue(RandNext(seed))))
    ELSE a

\* mpi: Generate_vector(local_a, local_n, my_rank, i_seed), reading time t
Generate_vector(len, t, my_rank, i_seed) ==
    GenLoop(Seed(t, my_rank, i_seed), 0, len, << >>)

\* seq: Generate_vector(a, n): srand(time(NULL)), then n calls of rand()
SeqGenerate_vector(len, t) == GenLoop(t % SeedMod, 0, len, << >>)

RECURSIVE ScaleLoop(_, _, _, _)
ScaleLoop(a, i, len, scalar) ==
    IF i < len
    THEN ScaleLoop([a EXCEPT ![i + 1] = @ * scalar], i + 1, len, scalar)
    ELSE a

\* line 227; faulty variant first: the loop starts at i = 1
Parallel_scalar_multiplicationMut(local_a, len, scalar) ==
    ScaleLoop(local_a, 1, len, scalar)
Parallel_scalar_multiplication(local_a, len, scalar) ==
    ScaleLoop(local_a, 0, len, scalar)

RECURSIVE DotLoop(_, _, _, _, _)
DotLoop(lx, ly, i, len, acc) ==
    IF i < len
    THEN DotLoop(lx, ly, i + 1, len, acc + lx[i + 1] * ly[i + 1])
    ELSE acc

\* line 215; faulty variant first: the loop starts at i = 1
Parallel_dot_productMut(lx, ly, len) == DotLoop(lx, ly, 1, len, 0)
Parallel_dot_product(lx, ly, len) == DotLoop(lx, ly, 0, len, 0)

RECURSIVE SumLoop(_, _, _, _, _)
SumLoop(xx, yy, zz, i, len) ==
    IF i < len
    THEN SumLoop(xx, yy, Append(zz, xx[i + 1] + yy[i + 1]), i + 1, len)
    ELSE zz

\* vector_add.c line 163; faulty variant first: the loop stops at n - 1
Vector_sumMut(xx, yy, len) == SumLoop(xx, yy, << >>, 0, len - 1)
Vector_sum(xx, yy, len) == SumLoop(xx, yy, << >>, 0, len)

\* what Print_vector shows of b: all of it below 20 elements, else the
\* first 10 and the last 10
Preview(b, len) ==
    IF len < PreviewLimit
    THEN SubSeq(b, 1, len)
    ELSE SubSeq(b, 1, PreviewCount) \o SubSeq(b, len - PreviewCount + 1, len)

\* ------------------------------------------------------------ collectives

CollectiveOrder ==
    << "Allreduce", "Gather", "Gather", "Barrier", "Reduce", "Gather", "Gather" >>

Arrived(k) == { q \in Ranks : Len(calls[q]) >= k }
AllArrived(k) == Arrived(k) = Ranks

\* MPI_Allreduce(MPI_MIN) over the local_ok flags of call k
RECURSIVE MinFrom(_, _)
MinFrom(k, q) ==
    IF q = comm_sz - 1 THEN calls[q][k].data[1]
    ELSE LET rest == MinFrom(k, q + 1)
             mine == calls[q][k].data[1]
         IN IF mine < rest THEN mine ELSE rest

\* MPI_Reduce(MPI_SUM) over the local_dot values of call k
RECURSIVE SumFrom(_, _)
SumFrom(k, q) ==
    IF q >= comm_sz THEN 0 ELSE calls[q][k].data[1] + SumFrom(k, q + 1)

\* MPI_Gather to the root: the blocks of call k in rank order
RECURSIVE GatherFrom(_, _)
GatherFrom(k, q) ==
    IF q >= comm_sz THEN << >> ELSE calls[q][k].data \o GatherFrom(k, q + 1)

Call(r, op, data) == [calls EXCEPT ![r] = Append(@, [op |-> op, data |-> data])]

Line(r, title, data) == [rank |-> r, title |-> title, data |-> data]

ExitPcs == { "exit_usage", "exit_order", "exit_alloc", "exit_display", "exit_ok" }
Exited(r) == pc[r] \in ExitPcs

\* ------------------------------------------------------------------ Init

Init ==
    /\ prog \in { "seq", "mpi" }
    /\ argc \in ArgcVals
    /\ n \in NVals
    /\ s \in (IF prog = "mpi" THEN SVals ELSE {0})
    /\ comm_sz \in (IF prog = "mpi" THEN 1 .. MaxCommSz ELSE {1})
    /\ now = 0
    /\ pc = [r \in AllRanks |->
                IF r >= comm_sz THEN "absent"
                ELSE IF prog = "mpi" THEN "check_args" ELSE "seq_check_args"]
    /\ status = [r \in AllRanks |-> 0]
    /\ local_n = [r \in AllRanks |-> 0]
    /\ heap = [r \in AllRanks |-> {}]
    /\ local_x = [r \in AllRanks |-> << >>]
    /\ local_y = [r \in AllRanks |-> << >>]
    /\ gen_x = [r \in AllRanks |-> << >>]
    /\ gen_y = [r \in AllRanks |-> << >>]
    /\ seeds = [r \in AllRanks |-> << >>]
    /\ local_dot = [r \in AllRanks |-> << >>]
    /\ global_dot = [r \in AllRanks |-> << >>]
    /\ calls = [r \in AllRanks |-> << >>]
    /\ stdout = << >>
    /\ stderr = << >>
    /\ alloc_failed = FALSE
    /\ x = << >>
    /\ y = << >>
    /\ z = << >>

\* the positions at which a process is about to call time(NULL)
BeforeTimeRead == { "gen_x", "gen_y", "seq_gen_x", "seq_gen_y" }

\* the wall clock advances (followed only while some process is about to
\* read it: an earlier or later tick is seen by no process)
Tick ==
    /\ now < MaxT
    /\ \E r \in AllRanks : pc[r] \in BeforeTimeRead
    /\ now' = now + 1
    /\ UNCHANGED << prog, argc, n, s, comm_sz, pc, status, local_n, heap,
                    local_x, local_y, gen_x, gen_y, seeds, local_dot,
                    global_dot, calls, stdout, stderr, alloc_failed, x, y, z >>

inputs == << prog, argc, n, s, comm_sz >>
seqVecs == << x, y, z >>

\* ------------------------------------------- mpi_vector_operations.c main

\* lines 49-69: the usage test, the test of n, local_n = n / comm_sz
\* faulty variant: only rank 0 makes the tests
CheckArgsMut(r) ==
    /\ prog = "mpi" /\ pc[r] = "check_args"
    /\ IF r = 0 /\ argc # MpiArgc
       THEN /\ stderr' = Append(stderr, Line(r, "Usage", << >>))
            /\ pc' = [pc EXCEPT ![r] = "exit_usage"]
            /\ status' = [status EXCEPT ![r] = ExitStatus(-1)]
            /\ UNCHANGED local_n
       ELSE IF r = 0 /\ InvalidOrder(n, comm_sz)
       THEN /\ stderr' = Append(stderr, Line(r, "Order of the vectors should be", << >>))
            /\ pc' = [pc EXCEPT ![r] = "exit_order"]
            /\ status' = [status EXCEPT ![r] = ExitStatus(-1)]
            /\ UNCHANGED local_n
       ELSE /\ local_n' = [local_n EXCEPT ![r] = n \div comm_sz]
            /\ pc' = [pc EXCEPT ![r] = "alloc"]
            /\ UNCHANGED << stderr, status >>
    /\ UNCHANGED << inputs, now, heap, local_x, local_y, gen_x, gen_y, seeds,
                    local_dot, global_dot, calls, stdout, alloc_failed, seqVecs >>

\* as in the source: every rank makes the tests
CheckArgs(r) ==
    /\ prog = "mpi" /\ pc[r] = "check_args"
    /\ IF argc # MpiArgc
       THEN /\ stderr' = IF r = 0 THEN Append(stderr, Line(r, "Usage", << >>))
                                  ELSE stderr
            /\ pc' = [pc EXCEPT ![r] = "exit_usage"]
            /\ status' = [status EXCEPT ![r] = ExitStatus(-1)]
            /\ UNCHANGED local_n
       ELSE IF InvalidOrder(n, comm_sz)
       THEN /\ stderr' = IF r = 0
                         THEN Append(stderr, Line(r, "Order of the vectors should be", << >>))
                         ELSE stderr
            /\ pc' = [pc EXCEPT ![r] = "exit_order"]
            /\ status' = [status EXCEPT ![r] = ExitStatus(-1)]
            /\ UNCHANGED local_n
       ELSE /\ local_n' = [local_n EXCEPT ![r] = n \div comm_sz]
            /\ pc' = [pc EXCEPT ![r] = "alloc"]
            /\ UNCHANGED << stderr, status >>
    /\ UNCHANGED << inputs, now, heap, local_x, local_y, gen_x, gen_y, seeds,
                    local_dot, global_dot, calls, stdout, alloc_failed, seqVecs >>

\* Allocate_vectors, lines 141-154, up to the MPI_Allreduce call of line 123:
\* either malloc may return NULL
AllocateVectors(r) ==
    /\ prog = "mpi" /\ pc[r] = "alloc"
    /\ \E okx \in BOOLEAN, oky \in BOOLEAN :
          /\ heap' = [heap EXCEPT ![r] = (IF okx THEN {"local_x"} ELSE {})
                                         \cup (IF oky THEN {"local_y"} ELSE {})]
          /\ calls' = Call(r, "Allreduce", << IF okx /\ oky THEN 1 ELSE 0 >>)
          /\ alloc_failed' = (alloc_failed \/ ~(okx /\ oky))
    /\ pc' = [pc EXCEPT ![r] = "check_err"]
    /\ UNCHANGED << inputs, now, status, local_n, local_x, local_y, gen_x, gen_y,
                    seeds, local_dot, global_dot, stdout, stderr, seqVecs >>

\* Check_for_error, lines 123-134, once MPI_Allreduce returns
CheckForError(r) ==
    /\ prog = "mpi" /\ pc[r] = "check_err"
    /\ AllArrived(1)
    /\ IF MinFrom(1, 0) = 0
       THEN /\ stderr' = IF r = 0
                         THEN Append(stderr, Line(r, "Can't allocate local vector(s)", << >>))
                         ELSE stderr
            /\ pc' = [pc EXCEPT ![r] = "exit_alloc"]
            /\ status' = [status EXCEPT ![r] = ExitStatus(-1)]
       ELSE /\ pc' = [pc EXCEPT ![r] = "gen_x"]
            /\ UNCHANGED << stderr, status >>
    /\ UNCHANGED << inputs, now, local_n, heap, local_x, local_y, gen_x, gen_y,
                    seeds, local_dot, global_dot, calls, stdout, alloc_failed,
                    seqVecs >>

\* line 75: Generate_vector(local_x, local_n, my_rank, 1)
GenerateX(r) ==
    /\ prog = "mpi" /\ pc[r] = "gen_x"
    /\ local_x' = [local_x EXCEPT ![r] = Generate_vector(local_n[r], now, r, 1)]
    /\ gen_x' = [gen_x EXCEPT ![r] = Generate_vector(local_n[r], now, r, 1)]
    /\ seeds' = [seeds EXCEPT ![r] =
                    Append(@, [t |-> now, i_seed |-> 1, seed |-> Seed(now, r, 1)])]
    /\ pc' = [pc EXCEPT ![r] = "gen_y"]
    /\ UNCHANGED << inputs, now, status, local_n, heap, local_y, gen_y, local_dot,
                    global_dot, calls, stdout, stderr, alloc_failed, seqVecs >>

\* line 76: Generate_vector(local_y, local_n, my_rank, 2)
GenerateY(r) ==
    /\ prog = "mpi" /\ pc[r] = "gen_y"
    /\ local_y' = [local_y EXCEPT ![r] = Generate_vector(local_n[r], now, r, 2)]
    /\ gen_y' = [gen_y EXCEPT ![r] = Generate_vector(local_n[r], now, r, 2)]
    /\ seeds' = [seeds EXCEPT ![r] =
                    Append(@, [t |-> now, i_seed |-> 2, seed |-> Seed(now, r, 2)])]
    /\ pc' = [pc EXCEPT ![r] = "print1"]
    /\ UNCHANGED << inputs, now, status, local_n, heap, local_x, gen_x, local_dot,
                    global_dot, calls, stdout, stderr, alloc_failed, seqVecs >>

\* the four Print_vector calls of main (lines 78, 79, 93, 94)
PrintPc == << "print1", "print2", "print3", "print4" >>
GatherPc == << "gather1", "gather2", "gather3", "gather4" >>
AfterPrint == << "print2", "scale_x", "print4", "report" >>
GatherCall == << 2, 3, 6, 7 >>
Title == << "=> The first vector is", "=> The second vector is",
            "=> The first vector after scalar multiplication is",
            "=> The second vector after scalar multiplication is" >>
Printed(r, k) == IF k \in {1, 3} THEN local_x[r] ELSE local_y[r]

\* Print_vector, lines 169-180: rank 0 allocates b (and leaves on NULL), then
\* every rank calls MPI_Gather
\* faulty variant: only rank 0 calls MPI_Gather
PrintVectorCallMut(r, k) ==
    /\ prog = "mpi" /\ pc[r] = PrintPc[k]
    /\ \/ /\ r = 0
          /\ heap' = [heap EXCEPT ![r] = @ \cup {"b"}]
          /\ calls' = Call(r, "Gather", Printed(r, k))
          /\ pc' = [pc EXCEPT ![r] = GatherPc[k]]
          /\ UNCHANGED << stderr, status, alloc_failed >>
       \/ /\ r = 0
          /\ stderr' = Append(stderr, Line(r, "Can't allocate temporary vector for printing", << >>))
          /\ pc' = [pc EXCEPT ![r] = "exit_display"]
          /\ status' = [status EXCEPT ![r] = ExitStatus(-1)]
          /\ alloc_failed' = TRUE
          /\ UNCHANGED << heap, calls >>
       \/ /\ r # 0
          /\ pc' = [pc EXCEPT ![r] = GatherPc[k]]
          /\ UNCHANGED << heap, calls, stderr, status, alloc_failed >>
    /\ UNCHANGED << inputs, now, local_n, local_x, local_y, gen_x, gen_y, seeds,
                    local_dot, global_dot, stdout, seqVecs >>

\* as in the source
PrintVectorCall(r, k) ==
    /\ prog = "mpi" /\ pc[r] = PrintPc[k]
    /\ \/ /\ r = 0
          /\ heap' = [heap EXCEPT ![r] = @ \cup {"b"}]
          /\ calls' = Call(r, "Gather", Printed(r, k))
          /\ pc' = [pc EXCEPT ![r] = GatherPc[k]]
          /\ UNCHANGED << stderr, status, alloc_failed >>
       \/ /\ r = 0
          /\ stderr' = Append(stderr, Line(r, "Can't allocate temporary vector for printing", << >>))
          /\ pc' = [pc EXCEPT ![r] = "exit_display"]
          /\ status' = [status EXCEPT ![r] = ExitStatus(-1)]
          /\ alloc_failed' = TRUE
          /\ UNCHANGED << heap, calls >>
       \/ /\ r # 0
          /\ calls' = Call(r, "Gather", Printed(r, k))
          /\ pc' = [pc EXCEPT ![r] = GatherPc[k]]
          /\ UNCHANGED << heap, stderr, status, alloc_failed >>
    /\ UNCHANGED << inputs, now, local_n, local_x, local_y, gen_x, gen_y, seeds,
                    local_dot, global_dot, stdout, seqVecs >>

\* Print_vector, lines 180-197: MPI_Gather returns; rank 0 prints the preview
\* of the gathered vector and frees b
PrintVectorReturn(r, k) ==
    /\ prog = "mpi" /\ pc[r] = GatherPc[k]
    /\ r = 0 => AllArrived(GatherCall[k])
    /\ IF r = 0
       THEN /\ stdout' = Append(stdout,
                            Line(r, Title[k], Preview(GatherFrom(GatherCall[k], 0), n)))
            /\ heap' = [heap EXCEPT ![r] = @ \ {"b"}]
       ELSE UNCHANGED << stdout, heap >>
    /\ pc' = [pc EXCEPT ![r] = AfterPrint[k]]
    /\ UNCHANGED << inputs, now, status, local_n, local_x, local_y, gen_x, gen_y,
                    seeds, local_dot, global_dot, calls, stderr, alloc_failed,
                    seqVecs >>

\* line 82: Parallel_scalar_multiplication(local_x, local_n, s)
ScaleX(r) ==
    /\ prog = "mpi" /\ pc[r] = "scale_x"
    /\ local_x' = [local_x EXCEPT ![r] =
                      Parallel_scalar_multiplication(local_x[r], local_n[r], s)]
    /\ pc' = [pc EXCEPT ![r] = "scale_y"]
    /\ UNCHANGED << inputs, now, status, local_n, heap, local_y, gen_x, gen_y,
                    seeds, local_dot, global_dot, calls, stdout, stderr,
                    alloc_failed, seqVecs >>

\* line 83: Parallel_scalar_multiplication(local_y, local_n, s)
\* faulty variant: the call is left out
ScaleYMut(r) ==
    /\ prog = "mpi" /\ pc[r] = "scale_y"
    /\ pc' = [pc EXCEPT ![r] = "barrier"]
    /\ UNCHANGED << inputs, now, status, local_n, heap, local_x, local_y, gen_x,
                    gen_y, seeds, local_dot, global_dot, calls, stdout, stderr,
                    alloc_failed, seqVecs >>

\* as in the source
ScaleY(r) ==
    /\ prog = "mpi" /\ pc[r] = "scale_y"
    /\ local_y' = [local_y EXCEPT ![r] =
                      Parallel_scalar_multiplication(local_y[r], local_n[r], s)]
    /\ pc' = [pc EXCEPT ![r] = "barrier"]
    /\ UNCHANGED << inputs, now, status, local_n, heap, local_x, gen_x, gen_y,
                    seeds, local_dot, global_dot, calls, stdout, stderr,
                    alloc_failed, seqVecs >>

\* line 86: the call of MPI_Barrier
BarrierCall(r) ==
    /\ prog = "mpi" /\ pc[r] = "barrier"
    /\ calls' = Call(r, "Barrier", << >>)
    /\ pc' = [pc EXCEPT ![r] = "in_barrier"]
    /\ UNCHANGED << inputs, now, status, local_n, heap, local_x, local_y, gen_x,
                    gen_y, seeds, local_dot, global_dot, stdout, stderr,
                    alloc_failed, seqVecs >>

\* lines 86-88: MPI_Barrier returns; local_dot = Parallel_dot_product(...)
BarrierReturn(r) ==
    /\ prog = "mpi" /\ pc[r] = "in_barrier"
    /\ AllArrived(4)
    /\ local_dot' = [local_dot EXCEPT ![r] =
                        << Parallel_dot_product(local_x[r], local_y[r], local_n[r]) >>]
    /\ pc' = [pc EXCEPT ![r] = "reduce"]
    /\ UNCHANGED << inputs, now, status, local_n, heap, local_x, local_y, gen_x,
                    gen_y, seeds, global_dot, calls, stdout, stderr, alloc_failed,
                    seqVecs >>

\* line 89: the call of MPI_Reduce(&local_dot, &global_dot, ..., MPI_SUM, 0)
ReduceCall(r) ==
    /\ prog = "mpi" /\ pc[r] = "reduce"
    /\ calls' = Call(r, "Reduce", local_dot[r])
    /\ pc' = [pc EXCEPT ![r] = "in_reduce"]
    /\ UNCHANGED << inputs, now, status, local_n, heap, local_x, local_y, gen_x,
                    gen_y, seeds, local_dot, global_dot, stdout, stderr,
                    alloc_failed, seqVecs >>

\* line 89: MPI_Reduce returns; only the root's receive buffer is written
ReduceReturn(r) ==
    /\ prog = "mpi" /\ pc[r] = "in_reduce"
    /\ r = 0 => AllArrived(5)
    /\ global_dot' = IF r = 0 THEN [global_dot EXCEPT ![r] = << SumFrom(5, 0) >>]
                              ELSE global_dot
    /\ pc' = [pc EXCEPT ![r] = "print3"]
    /\ UNCHANGED << inputs, now, status, local_n, heap, local_x, local_y, gen_x,
                    gen_y, seeds, local_dot, calls, stdout, stderr, alloc_failed,
                    seqVecs >>

\* lines 96-107: rank 0 reports; free, MPI_Finalize, return 0
\* faulty variant: every rank prints
ReportMut(r) ==
    /\ prog = "mpi" /\ pc[r] = "report"
    /\ stdout' = Append(Append(stdout, Line(r, "The dot product is", global_dot[r])),
                        Line(r, "Dot product computation took", << >>))
    /\ heap' = [heap EXCEPT ![r] = @ \ {"local_x", "local_y"}]
    /\ pc' = [pc EXCEPT ![r] = "exit_ok"]
    /\ status' = [status EXCEPT ![r] = ExitStatus(0)]
    /\ UNCHANGED << inputs, now, local_n, local_x, local_y, gen_x, gen_y, seeds,
                    local_dot, global_dot, calls, stderr, alloc_failed, seqVecs >>

\* as in the source: only rank 0 prints
Report(r) ==
    /\ prog = "mpi" /\ pc[r] = "report"
    /\ stdout' = IF r = 0
                 THEN Append(Append(stdout, Line(r, "The dot product is", global_dot[r])),
                             Line(r, "Dot product computation took", << >>))
                 ELSE stdout
    /\ heap' = [heap EXCEPT ![r] = @ \ {"local_x", "local_y"}]
    /\ pc' = [pc EXCEPT ![r] = "exit_ok"]
    /\ status' = [status EXCEPT ![r] = ExitStatus(0)]
    /\ UNCHANGED << inputs, now, local_n, local_x, local_y, gen_x, gen_y, seeds,
                    local_dot, global_dot, calls, stderr, alloc_failed, seqVecs >>

MpiStep(r) ==
    \/ CheckArgs(r)
    \/ AllocateVectors(r)
    \/ CheckForError(r)
    \/ GenerateX(r)
    \/ GenerateY(r)
    \/ \E k \in 1 .. 4 : PrintVectorCall(r, k)
    \/ \E k \in 1 .. 4 : PrintVectorReturn(r, k)
    \/ ScaleX(r)
    \/ ScaleY(r)
    \/ BarrierCall(r)
    \/ BarrierReturn(r)
    \/ ReduceCall(r)
    \/ ReduceReturn(r)
    \/ Report(r)

mpiVars == << local_n, local_x, local_y, gen_x, gen_y, seeds, local_dot,
              global_dot, calls >>

\* ------------------------------------------------------- vector_add.c main

\* lines 31-41: the usage test and the test of n
SeqCheckArgs ==
    /\ prog = "seq" /\ pc[0] = "seq_check_args"
    /\ IF argc # SeqArgc
       THEN /\ stderr' = Append(stderr, Line(0, "Usage", << >>))
            /\ pc' = [pc EXCEPT ![0] = "exit_usage"]
            /\ status' = [status EXCEPT ![0] = ExitStatus(-1)]
       ELSE IF SeqInvalidOrder(n)
       THEN /\ stderr' = Append(stderr,
                            Line(0, "Order of the vectors should be a positive integer", << >>))
            /\ pc' = [pc EXCEPT ![0] = "exit_order"]
            /\ status' = [status EXCEPT ![0] = ExitStatus(-1)]
       ELSE /\ pc' = [pc EXCEPT ![0] = "seq_alloc"]
            /\ UNCHANGED << stderr, status >>
    /\ UNCHANGED << inputs, now, heap, mpiVars, stdout, alloc_failed, seqVecs >>

\* Allocate_vectors, lines 97-109: any of the three mallocs may return NULL
SeqAllocateVectors ==
    /\ prog = "seq" /\ pc[0] = "seq_alloc"
    /\ \E okx \in BOOLEAN, oky \in BOOLEAN, okz \in BOOLEAN :
          /\ heap' = [heap EXCEPT ![0] = (IF okx THEN {"x"} ELSE {})
                                         \cup (IF oky THEN {"y"} ELSE {})
                                         \cup (IF okz THEN {"z"} ELSE {})]
          /\ IF okx /\ oky /\ okz
             THEN /\ pc' = [pc EXCEPT ![0] = "seq_gen_x"]
                  /\ UNCHANGED << stderr, status, alloc_failed >>
             ELSE /\ stderr' = Append(stderr, Line(0, "Can't allocate vectors", << >>))
                  /\ pc' = [pc EXCEPT ![0] = "exit_alloc"]
                  /\ status' = [status EXCEPT ![0] = ExitStatus(-1)]
                  /\ alloc_failed' = TRUE
    /\ UNCHANGED << inputs, now, mpiVars, stdout, seqVecs >>

\* line 49: Generate_vector(x, n)
SeqGenerateX ==
    /\ prog = "seq" /\ pc[0] = "seq_gen_x"
    /\ x' = SeqGenerate_vector(n, now)
    /\ pc' = [pc EXCEPT ![0] = "seq_gen_y"]
    /\ UNCHANGED << inputs, now, status, heap, mpiVars, stdout, stderr,
                    alloc_failed, y, z >>

\* line 50: Generate_vector(y, n)
SeqGenerateY ==
    /\ prog = "seq" /\ pc[0] = "seq_gen_y"
    /\ y' = SeqGenerate_vector(n, now)
    /\ pc' = [pc EXCEPT ![0] = "seq_sum"]
    /\ UNCHANGED << inputs, now, status, heap, mpiVars, stdout, stderr,
                    alloc_failed, x, z >>

\* line 53: Vector_sum(x, y, z, n)
SeqVectorSum ==
    /\ prog = "seq" /\ pc[0] = "seq_sum"
    /\ z' = Vector_sum(x, y, n)
    /\ pc' = [pc EXCEPT ![0] = "seq_print1"]
    /\ UNCHANGED << inputs, now, status, heap, mpiVars, stdout, stderr,
                    alloc_failed, x, y >>

\* lines 59-61: the three Print_vector calls (lines 135-153)
SeqPrintPc == << "seq_print1", "seq_print2", "seq_print3" >>
SeqAfterPrint == << "seq_print2", "seq_print3", "seq_finish" >>
SeqTitle == << "=> The first vector is", "=> The second vector is", "=> The sum is" >>
SeqPrinted(k) == IF k = 1 THEN x ELSE IF k = 2 THEN y ELSE z

SeqPrintVector(k) ==
    /\ prog = "seq" /\ pc[0] = SeqPrintPc[k]
    /\ stdout' = Append(stdout, Line(0, SeqTitle[k], Preview(SeqPrinted(k), n)))
    /\ pc' = [pc EXCEPT ![0] = SeqAfterPrint[k]]
    /\ UNCHANGED << inputs, now, status, heap, mpiVars, stderr, alloc_failed,
                    seqVecs >>

\* lines 63-70: the timing line, free, return 0
SeqFinish ==
    /\ prog = "seq" /\ pc[0] = "seq_finish"
    /\ stdout' = Append(stdout, Line(0, "Vector addition took", << >>))
    /\ heap' = [heap EXCEPT ![0] = {}]
    /\ pc' = [pc EXCEPT ![0] = "exit_ok"]
    /\ status' = [status EXCEPT ![0] = ExitStatus(0)]
    /\ UNCHANGED << inputs, now, mpiVars, stderr, alloc_failed, seqVecs >>

SeqStep ==
    \/ SeqCheckArgs
    \/ SeqAllocateVectors
    \/ SeqGenerateX
    \/ SeqGenerateY
    \/ SeqVectorSum
    \/ \E k \in 1 .. 3 : SeqPrintVector(k)
    \/ SeqFinish

\* ----------------------------------------------------------- specification

SomeMpiStep == \E r \in AllRanks : MpiStep(r)

Next ==
    \/ Tick
    \/ SeqStep
    \/ SomeMpiStep

Spec == Init /\ [][Next]_vars

\* every process is scheduled on its own: a process that can take a step
\* eventually takes one
FairSpec ==
    /\ Spec
    /\ WF_vars(SeqStep)
    /\ \A r \in AllRanks : WF_vars(MpiStep(r))

\* ------------------------------------------------ vocabulary of the claims

RECURSIVE SeqDot(_, _)
SeqDot(a, b) == IF a = << >> THEN 0 ELSE Head(a) * Head(b) + SeqDot(Tail(a), Tail(b))

RECURSIVE Blocks(_, _)
Blocks(f, q) == IF q >= comm_sz THEN << >> ELSE f[q] \o Blocks(f, q + 1)

RECURSIVE LocalDotSum(_)
LocalDotSum(q) == IF q >= comm_sz THEN 0 ELSE local_dot[q][1] + LocalDotSum(q + 1)

RECURSIVE GenDotSum(_)
GenDotSum(q) == IF q >= comm_sz THEN 0 ELSE SeqDot(gen_x[q], gen_y[q]) + GenDotSum(q + 1)

Times(a, k) == [i \in 1 .. Len(a) |-> a[i] * k]

DotLines == { i \in 1 .. Len(stdout) : stdout[i].title = "The dot product is" }

MpiRun == prog = "mpi"
SeqRun == prog = "seq"
AllExited == \A r \in Ranks : Exited(r)
AllExitedOk == \A r \in Ranks : pc[r] = "exit_ok"

\* r has returned from its k-th collective call
InCollective == { "check_err", "gather1", "gather2", "gather3", "gather4",
                  "in_barrier", "in_reduce" }
Returned(r, k) ==
    \/ Len(calls[r]) > k
    \/ Len(calls[r]) = k /\ pc[r] \notin InCollective

SameOrder(r) ==
    /\ Len(calls[r]) <= Len(CollectiveOrder)
    /\ \A k \in 1 .. Len(calls[r]) : calls[r][k].op = CollectiveOrder[k]

\* ------------------------------------------------------------------ claims

\* C1: once MPI_Reduce has returned at rank 0, global_dot is the sum of the
\* workers' local_dot values, and that is the dot product of the two full
\* (scaled) vectors, the blocks taken in rank order.  The spec's example:
\* blocks [2,4],[8,6] and [6,8],[4,2] give 40 and 40.
C1_GlobalDotIsSumOfLocalDots ==
    /\ Parallel_dot_product(<< 2, 4 >>, << 8, 6 >>, 2) = 40
    /\ Parallel_dot_product(<< 6, 8 >>, << 4, 2 >>, 2) = 40
    /\ (MpiRun /\ global_dot[0] # << >>) =>
          /\ \A r \in Ranks : local_dot[r] # << >>
          /\ global_dot[0] = << LocalDotSum(0) >>
          /\ Len(Blocks(local_x, 0)) = n
          /\ Len(Blocks(local_y, 0)) = n
          /\ global_dot[0] = << SeqDot(Blocks(local_x, 0), Blocks(local_y, 0)) >>

C1_Witness ==
    /\ MpiRun /\ comm_sz >= 2
    /\ global_dot[0] # << >>
    /\ \A r \in Ranks : local_dot[r] # << >> /\ local_dot[r][1] > 0
    /\ global_dot[0][1] > local_dot[0][1]

C7_VectorSum ==
    /\ Vector_sum(<< 1, 2, 3, 4 >>, << 5, 6, 7, 8 >>, 4) = << 6, 8, 10, 12 >>
    /\ (SeqRun /\ pc[0] \in { "seq_print1", "seq_print2", "seq_print3",
                              "seq_finish", "exit_ok" }) =>
          /\ Len(x) = n /\ Len(y) = n /\ Len(z) = n
          /\ \A i \in 1 .. n : z[i] = x[i] + y[i]
          /\ \E t \in 0 .. MaxT : x = SeqGenerate_vector(n, t)
          /\ \E t \in 0 .. MaxT : y = SeqGenerate_vector(n, t)

C7_Witness ==
    /\ SeqRun /\ pc[0] = "exit_ok" /\ n = 4
    /\ x # y
    /\ \E i \in 1 .. n : z[i] > x[i] /\ z[i] > y[i]

\* C8: Parallel_scalar_multiplication multiplies every element of the block
\* by s once and changes nothing else: after the first call local_x is s
\* times the generated block and local_y is untouched, after the second both
\* are; scaling by 1 changes nothing, scaling by 0 gives zeros; each preview
\* printed after the scaling is s times the preview printed before it.
C8_ScalarMultiplication ==
    /\ Parallel_scalar_multiplication(<< 1, 2, 3 >>, 3, 1) = << 1, 2, 3 >>
    /\ Parallel_scalar_multiplication(<< 1, 2, 3 >>, 3, 0) = << 0, 0, 0 >>
    /\ Parallel_scalar_multiplication(<< 1, 2, 3, 4 >>, 4, 2) = << 2, 4, 6, 8 >>
    /\ MpiRun =>
          /\ \A r \in Ranks :
                /\ pc[r] \in { "print1", "gather1", "print2", "gather2", "scale_x" } =>
                      local_x[r] = gen_x[r] /\ local_y[r] = gen_y[r]
                /\ pc[r] = "scale_y" =>
                      local_x[r] = Times(gen_x[r], s) /\ local_y[r] = gen_y[r]
                /\ Len(calls[r]) >= 4 =>
                      /\ local_x[r] = Times(gen_x[r], s)
                      /\ local_y[r] = Times(gen_y[r], s)
                      /\ Len(local_x[r]) = local_n[r]
                      /\ Len(local_y[r]) = local_n[r]
                      /\ s = 1 => local_x[r] = gen_x[r] /\ local_y[r] = gen_y[r]
                      /\ s = 0 => \A i \in 1 .. local_n[r] :
                                     local_x[r][i] = 0 /\ local_y[r][i] = 0
          /\ Len(stdout) >= 3 => stdout[3].data = Times(stdout[1].data, s)
          /\ Len(stdout) >= 4 => stdout[4].data = Times(stdout[2].data, s)

C8_Witness ==
    /\ MpiRun /\ comm_sz >= 2 /\ s = 2 /\ n = 22
    /\ Len(stdout) >= 4
    /\ Len(stdout[1].data) = 2 * PreviewCount
    /\ \E i \in 1 .. Len(stdout[1].data) : stdout[1].data[i] > 0
    /\ \E i \in 1 .. Len(stdout[2].data) : stdout[2].data[i] > 0

\* C3 as stated: a worker that leaves on a usage or validation error has
\* learnt of it through the minimum-reduction of the ok flag (it has made
\* the MPI_Allreduce call), and no worker is at or past the allocation while
\* another has left on such an error.
C3_DetectedByMinReduction ==
    MpiRun =>
       \A r \in Ranks : pc[r] \in { "exit_usage", "exit_order" } =>
          /\ Len(calls[r]) >= 1 /\ calls[r][1].op = "Allreduce"
          /\ \A q \in Ranks : pc[q] \in { "check_args", "exit_usage", "exit_order" }

\* C3 as amended: the usage and validation tests are made by every worker
\* on its own, with no collective call; all workers test the same argc, n
\* and comm_sz, so they decide alike: when one has left on a usage or
\* validation error, every other is before its own test or has left on the
\* same error with non-zero status, and none has made a collective call,
\* allocated, or exited with status 0.
C3_AllOrNothingWithoutCollective ==
    MpiRun =>
       /\ \A r \in Ranks : pc[r] \in { "exit_usage", "exit_order" } =>
             /\ status[r] # 0
             /\ \A q \in Ranks :
                   /\ pc[q] \in { "check_args", pc[r] }
                   /\ calls[q] = << >>
                   /\ heap[q] = {}
       /\ (argc # 3 \/ n <= 0 \/ n % comm_sz # 0) =>
             \A q \in Ranks : pc[q] \in { "check_args", "exit_usage", "exit_order" }
       /\ \A r \in Ranks : pc[r] \notin { "check_args", "exit_usage", "exit_order" } =>
             \A q \in Ranks : pc[q] \notin { "exit_usage", "exit_order" }

C3_Witness ==
    /\ MpiRun /\ comm_sz >= 2 /\ argc = 3 /\ n > 0 /\ n % comm_sz # 0
    /\ \A r \in Ranks : pc[r] = "exit_order" /\ status[r] = 255 /\ calls[r] = << >>

\* C4 as stated: after an allocation failure at any site no worker finishes
\* with status 0, every worker that has exited has a non-zero status, and no
\* worker is left waiting in a collective that will never complete (the
\* run has either ended for all or some worker can still take a step).
C4_AllocFailureFatalForAll ==
    (MpiRun /\ alloc_failed) =>
       /\ \A r \in Ranks : pc[r] # "exit_ok"
       /\ \A r \in Ranks : Exited(r) => status[r] # 0
       /\ AllExited \/ ENABLED SomeMpiStep

\* C5: an invalid n (n <= 0, or in the distributed program n not divisible
\* by comm_sz) is rejected before anything else happens: no buffer is
\* allocated, no vector generated, no collective called, nothing written to
\* stdout; each process leaves with non-zero status and exactly one line
\* goes to stderr, written by rank 0.
C5_InvalidOrderRejected ==
    /\ (MpiRun /\ argc = 3 /\ (n <= 0 \/ n % comm_sz # 0)) =>
          /\ \A r \in Ranks :
                /\ pc[r] \in { "check_args", "exit_order" }
                /\ pc[r] = "exit_order" => status[r] # 0
                /\ heap[r] = {} /\ calls[r] = << >> /\ seeds[r] = << >>
                /\ local_x[r] = << >> /\ local_y[r] = << >>
                /\ local_dot[r] = << >> /\ global_dot[r] = << >>
          /\ stdout = << >>
          /\ Len(stderr) = (IF pc[0] = "exit_order" THEN 1 ELSE 0)
          /\ \A i \in 1 .. Len(stderr) : stderr[i].rank = 0
    /\ (SeqRun /\ argc = 2 /\ n <= 0) =>
          /\ pc[0] \in { "seq_check_args", "exit_order" }
          /\ pc[0] = "exit_order" => status[0] # 0
          /\ heap[0] = {}
          /\ x = << >> /\ y = << >> /\ z = << >>
          /\ stdout = << >>
          /\ Len(stderr) = (IF pc[0] = "exit_order" THEN 1 ELSE 0)

C5_Witness ==
    /\ MpiRun /\ comm_sz >= 2 /\ argc = 3 /\ n = 0
    /\ AllExited
    /\ Len(stderr) = 1 /\ stderr[1].rank = 0
    /\ stdout = << >>

\* C6 as stated: two Generate_vector calls made by different ranks at the
\* same clock reading never use the same seed.
C6_DistinctSeedsAcrossRanks ==
    MpiRun =>
       \A r \in Ranks, q \in Ranks : r # q =>
          \A i \in 1 .. Len(seeds[r]), j \in 1 .. Len(seeds[q]) :
             seeds[r][i].t = seeds[q][j].t => seeds[r][i].seed # seeds[q][j].seed

\* C9: only rank 0 ever holds or prints the combined dot product: no other
\* rank's global_dot is written, every stdout line is rank 0's, the dot
\* product line is printed at most once and exactly once in a run that
\* rank 0 completes; it is printed, and global_dot[0] written, only after
\* every worker has made its MPI_Reduce call, and it shows the sum of the
\* values the workers contributed.
C9_OnlyCoordinatorReports ==
    MpiRun =>
       /\ \A r \in Ranks : r # 0 => global_dot[r] = << >>
       /\ \A i \in 1 .. Len(stdout) : stdout[i].rank = 0
       /\ Cardinality(DotLines) <= 1
       /\ pc[0] = "exit_ok" <=> Cardinality(DotLines) = 1
       /\ (global_dot[0] # << >> \/ DotLines # {}) => AllArrived(5)
       /\ \A i \in DotLines :
             /\ stdout[i].data = << SumFrom(5, 0) >>
             /\ stdout[i].data = global_dot[0]

C9_Witness ==
    /\ MpiRun /\ comm_sz >= 2 /\ AllExitedOk
    /\ Cardinality(DotLines) = 1
    /\ \E i \in DotLines : stdout[i].rank = 0 /\ stdout[i].data[1] > 0

\* C10 as stated: with valid arguments and no allocation failure every
\* worker makes the collective calls in the same order, and no worker has
\* returned from a collective call that some worker has not yet made.
C10_NoWorkerPassesCollectiveEarly ==
    (MpiRun /\ argc = 3 /\ n > 0 /\ n % comm_sz = 0 /\ ~alloc_failed) =>
       \A r \in Ranks :
          /\ SameOrder(r)
          /\ \A k \in 1 .. Len(calls[r]) : Returned(r, k) => AllArrived(k)

\* C10 as amended: with valid arguments and no allocation failure every
\* worker makes the collective calls in the same order (all-reduce, gather,
\* gather, barrier, reduce, gather, gather); no worker returns from the
\* all-reduce or the barrier, and rank 0 returns from no collective, before
\* every worker has made that call (a worker other than rank 0 may return
\* from a gather or from the reduce earlier); no worker is ever stuck (until
\* all have exited some worker can take a step, and every step moves a
\* worker forward in a loop-free program, so every worker finishes); a
\* worker that has exited has status 0.
C10_OrderedCollectivesAndTermination ==
    (MpiRun /\ argc = 3 /\ n > 0 /\ n % comm_sz = 0 /\ ~alloc_failed) =>
       /\ \A r \in Ranks :
             /\ SameOrder(r)
             /\ \A k \in 1 .. Len(calls[r]) :
                   (Returned(r, k) /\ (r = 0 \/ calls[r][k].op \in { "Allreduce", "Barrier" }))
                      => AllArrived(k)
             /\ Exited(r) => pc[r] = "exit_ok" /\ status[r] = 0
                             /\ Len(calls[r]) = Len(CollectiveOrder)
       /\ AllExitedOk \/ ENABLED SomeMpiStep

\* the termination part of C10 as a temporal property (holds under FairSpec)
EveryWorkerTerminates ==
    (MpiRun /\ argc = 3 /\ n > 0 /\ n % comm_sz = 0) =>
       <>(alloc_failed \/ \A r \in Ranks : pc[r] = "exit_ok" /\ status[r] = 0)

C10_Witness ==
    /\ MpiRun /\ comm_sz >= 2 /\ ~alloc_failed
    /\ AllExitedOk
    /\ \A r \in Ranks : status[r] = 0 /\ Len(calls[r]) = 7 /\ SameOrder(r)

====
